---- MODULE Spec2Model ----
(***************************************************************************)
(* Model of the Todo REST API of Frontend/backend/main.py: one table of    *)
(* todo rows, six request handlers, and the per-request storage session    *)
(* that get_db hands out.                                                  *)
(*                                                                         *)
(* Spec      the handlers as atomic requests against the table (the body   *)
(*           of an `async def` handler holds no await, so one worker runs  *)
(*           it to completion), with the wall clock ticking in between.    *)
(*           Each storage call of a handler (query, commit, refresh) may   *)
(*           raise.                                                        *)
(* ConcSpec  requests as processes (several workers, or any other writer,  *)
(*           on one todos.db): get_db opens a session, the handler runs,   *)
(*           statement by statement where it issues several reads, and     *)
(*           the session is closed.  A handler with one write is one       *)
(*           transaction.                                                  *)
(***************************************************************************)
EXTENDS Integers, Sequences, FiniteSets, TLC

VARIABLES
    todos,      \* the table "todos": id -> row (TodoDB)
    now,        \* SQLite's func.now(), in whole seconds
    last,       \* Spec: the last request and its response
    pc,         \* ConcSpec: where each request is
    req,        \* ConcSpec: the request each process handles
    db,         \* ConcSpec: the session get_db yielded to each request
    sessions,   \* ConcSpec: every session SessionLocal() made: state, owner, closes
    resp        \* ConcSpec: the response (and the handler's locals) of each request

vars == <<todos, now, last, pc, req, db, sessions, resp>>
concVars == <<pc, req, db, sessions, resp>>

----------------------------------------------------------------------------
(* Bounds *)
MaxId == 2          \* ids the table hands out
MaxTime == 1        \* seconds the clock runs
MaxSupplied == 2    \* fields one update body supplies
MaxSkip == 1        \* largest skip of a list request
MaxLimit == 2       \* largest limit of a list request
NumRequests == 2    \* request processes of ConcSpec
MaxSessions == 3    \* sessions SessionLocal() makes in ConcSpec

----------------------------------------------------------------------------
(* Values *)

\* Optional[T]: None is the empty sequence, a value v is <<v>>.
None == <<>>
Some(v) == <<v>>

\* A str is a sequence of characters.
Whitespace == {" "}
Texts == {<<>>, <<" ">>, <<"a">>, <<" ", "a", " ">>}

RECURSIVE lstrip(_)
lstrip(s) ==
    IF s = <<>> THEN <<>>
    ELSE IF Head(s) \in Whitespace THEN lstrip(Tail(s)) ELSE s

RECURSIVE rstrip(_)
rstrip(s) ==
    IF s = <<>> THEN <<>>
    ELSE IF s[Len(s)] \in Whitespace THEN rstrip(SubSeq(s, 1, Len(s) - 1)) ELSE s

\* Variant: the text is stored as sent.
strip_nothing(s) == s

\* str.strip()
strip(s) == rstrip(lstrip(s))

\* Python truthiness of an Optional[str]: None and "" are falsy.
Truthy(o) == o # None /\ o[1] # <<>>

\* The same for the priority query parameter, whose values are kept as names.
TruthyName(o) == o # None /\ o[1] # ""

\* Variant: a whitelist that lets "urgent" through.
valid_priorities_open == {"low", "medium", "high", "urgent"}

valid_priorities == {"low", "medium", "high"}

PriorityInputs == {"low", "medium", "high", "urgent"}

UpdateFields == {"title", "description", "completed", "priority"}

Max(S) == CHOOSE x \in S : \A y \in S : y <= x

Min2(a, b) == IF a <= b THEN a ELSE b

----------------------------------------------------------------------------
(* The table *)

\* A new row as the INSERT leaves it: the column defaults for completed and the
\* two timestamps.
TodoDB(id, title, description, priority, clock) ==
    [id |-> id, title |-> title, description |-> description,
     completed |-> Some(FALSE), priority |-> priority,
     created_at |-> clock, updated_at |-> clock]

\* The rowid SQLite gives an INTEGER PRIMARY KEY without AUTOINCREMENT.
NextId(T) == IF DOMAIN T = {} THEN 1 ELSE Max(DOMAIN T) + 1

Insert(T, row) == [i \in DOMAIN T \cup {row.id} |-> IF i = row.id THEN row ELSE T[i]]

Remove(T, id) == [i \in DOMAIN T \ {id} |-> T[i]]

\* response_model=Todo: the row must validate as Todo (completed: bool).
ResponseValid(row) == row.completed # None

\* What a handler gives back: the table after it, the status, the body, whether
\* the injected storage failure was hit and whether a write was committed.
Outcome(T, status, result, failed, committed) ==
    [todos |-> T, status |-> status, result |-> result,
     failed |-> failed, committed |-> committed]

----------------------------------------------------------------------------
(* create_todo *)

CreateDescription(todo) ==
    IF Truthy(todo.description) THEN strip(todo.description[1]) ELSE <<>>

CreateTodo(T, clock, todo, fail) ==
    IF todo.priority = None \/ todo.priority[1] \notin valid_priorities
    THEN Outcome(T, 400, None, FALSE, FALSE)
    ELSE LET db_todo == TodoDB(NextId(T), strip(todo.title), CreateDescription(todo),
                               todo.priority[1], clock)
         IN  IF db_todo.title = <<>> THEN Outcome(T, 400, None, FALSE, FALSE)
             ELSE IF fail = "commit" THEN Outcome(T, 500, None, TRUE, FALSE)
             ELSE IF fail = "refresh"
                  THEN Outcome(Insert(T, db_todo), 500, None, TRUE, TRUE)
             ELSE Outcome(Insert(T, db_todo), 200, Some(db_todo), FALSE, TRUE)

----------------------------------------------------------------------------
(* update_todo *)

\* The loop over update_data.items(): only the supplied fields are assigned.
UpdateDescription(u) ==
    IF Truthy(u.description) THEN strip(u.description[1]) ELSE <<>>

\* Variant: full replace of the description, supplied or not.
ApplyUpdateReplace(row, u, clock) ==
    [row EXCEPT
        !.title = IF "title" \in u.set THEN strip(u.title[1]) ELSE @,
        !.description = UpdateDescription(u),
        !.completed = IF "completed" \in u.set THEN u.completed ELSE @,
        !.priority = IF "priority" \in u.set THEN u.priority[1] ELSE @,
        !.updated_at = clock]

ApplyUpdate(row, u, clock) ==
    [row EXCEPT
        !.title = IF "title" \in u.set THEN strip(u.title[1]) ELSE @,
        !.description = IF "description" \in u.set THEN UpdateDescription(u) ELSE @,
        !.completed = IF "completed" \in u.set THEN u.completed ELSE @,
        !.priority = IF "priority" \in u.set THEN u.priority[1] ELSE @,
        !.updated_at = clock]

UpdateTodo(T, clock, todo_id, u, fail) ==
    IF fail = "query" THEN Outcome(T, 500, None, TRUE, FALSE)
    ELSE IF todo_id \notin DOMAIN T THEN Outcome(T, 404, None, FALSE, FALSE)
    ELSE IF "priority" \in u.set
            /\ (u.priority = None \/ u.priority[1] \notin valid_priorities)
    THEN Outcome(T, 400, None, FALSE, FALSE)
    \* None.strip() raises AttributeError: the generic handler answers 500.
    ELSE IF "title" \in u.set /\ u.title = None THEN Outcome(T, 500, None, FALSE, FALSE)
    ELSE IF "title" \in u.set /\ strip(u.title[1]) = <<>>
    THEN Outcome(T, 400, None, FALSE, FALSE)
    ELSE LET db_todo == ApplyUpdate(T[todo_id], u, clock)
             T2 == [T EXCEPT ![todo_id] = db_todo]
         IN  IF fail = "commit" THEN Outcome(T, 500, None, TRUE, FALSE)
             ELSE IF fail = "refresh" THEN Outcome(T2, 500, None, TRUE, TRUE)
             ELSE IF ~ResponseValid(db_todo) THEN Outcome(T2, 500, None, FALSE, TRUE)
             ELSE Outcome(T2, 200, Some(db_todo), FALSE, TRUE)

----------------------------------------------------------------------------
(* delete_todo, get_todo *)

\* Variant: deleting an absent id is answered like a delete.
DeleteTodoIdempotent(T, todo_id, fail) ==
    IF fail = "query" THEN Outcome(T, 500, None, TRUE, FALSE)
    ELSE IF fail = "commit" /\ todo_id \in DOMAIN T THEN Outcome(T, 500, None, TRUE, FALSE)
    ELSE Outcome(Remove(T, todo_id), 200, None, FALSE, todo_id \in DOMAIN T)

DeleteTodo(T, todo_id, fail) ==
    IF fail = "query" THEN Outcome(T, 500, None, TRUE, FALSE)
    ELSE IF todo_id \notin DOMAIN T THEN Outcome(T, 404, None, FALSE, FALSE)
    ELSE IF fail = "commit" THEN Outcome(T, 500, None, TRUE, FALSE)
    ELSE Outcome(Remove(T, todo_id), 200, None, FALSE, TRUE)

GetTodo(T, todo_id, fail) ==
    IF fail = "query" THEN Outcome(T, 500, None, TRUE, FALSE)
    ELSE IF todo_id \notin DOMAIN T THEN Outcome(T, 404, None, FALSE, FALSE)
    ELSE IF ~ResponseValid(T[todo_id]) THEN Outcome(T, 500, None, FALSE, FALSE)
    ELSE Outcome(T, 200, Some(T[todo_id]), FALSE, FALSE)

----------------------------------------------------------------------------
(* get_todos *)

\* query.filter(...): the completed filter when it is not None, the priority
\* filter when the string is truthy.  A NULL never equals a filter value.
Filtered(T, q) ==
    {i \in DOMAIN T :
        /\ (q.completed # None => T[i].completed = q.completed)
        /\ (TruthyName(q.priority) => T[i].priority = q.priority[1])}

\* ORDER BY created_at DESC: every order of the rows that is descending in
\* created_at (SQL leaves the order of ties open).
Orderings(T, S) ==
    {o \in [1..Cardinality(S) -> S] :
        /\ \A i, j \in 1..Cardinality(S) : i # j => o[i] # o[j]
        /\ \A i, j \in 1..Cardinality(S) : i < j => T[o[i]].created_at >= T[o[j]].created_at}

\* OFFSET skip LIMIT limit
OffsetLimit(o, skip, limit) == SubSeq(o, skip + 1, Min2(Len(o), skip + limit))

GetTodos(T, q, order, fail) ==
    IF fail = "query" THEN Outcome(T, 500, None, TRUE, FALSE)
    ELSE LET ids == OffsetLimit(order, q.skip, q.limit)
             rows == [k \in 1..Len(ids) |-> T[ids[k]]]
         IN  IF \E k \in 1..Len(rows) : ~ResponseValid(rows[k])
             THEN Outcome(T, 500, None, FALSE, FALSE)
             ELSE Outcome(T, 200, rows, FALSE, FALSE)

----------------------------------------------------------------------------
(* get_todo_stats: three COUNT queries *)

CountAll(T) == Cardinality(DOMAIN T)

CountCompleted(T) == Cardinality({i \in DOMAIN T : T[i].completed = Some(TRUE)})

CountHighPending(T) ==
    Cardinality({i \in DOMAIN T : T[i].priority = "high" /\ T[i].completed = Some(FALSE)})

Summary(total, completed, high_priority) ==
    [total |-> total, completed |-> completed, pending |-> total - completed,
     high_priority_pending |-> high_priority]

GetTodoStats(T, fail) ==
    IF fail = "query" THEN Outcome(T, 500, None, TRUE, FALSE)
    ELSE Outcome(T, 200, Summary(CountAll(T), CountCompleted(T), CountHighPending(T)),
                 FALSE, FALSE)

----------------------------------------------------------------------------
(* Request bodies *)

\* TodoCreate: title is required; description and priority default to "" and
\* "medium" and may be sent as null.
TodoCreate ==
    [title : Texts,
     description : {None} \cup {Some(t) : t \in Texts},
     priority : {None} \cup {Some(p) : p \in PriorityInputs}]

\* TodoUpdate: every field is optional and None by default; `set` holds the
\* fields the body supplied (what dict(exclude_unset=True) keeps).
TodoUpdate ==
    {u \in [set : {s \in SUBSET UpdateFields : Cardinality(s) <= MaxSupplied},
            title : {None} \cup {Some(t) : t \in Texts},
            description : {None} \cup {Some(t) : t \in Texts},
            completed : {None, Some(TRUE), Some(FALSE)},
            priority : {None} \cup {Some(p) : p \in PriorityInputs}] :
        /\ "title" \notin u.set => u.title = None
        /\ "description" \notin u.set => u.description = None
        /\ "completed" \notin u.set => u.completed = None
        /\ "priority" \notin u.set => u.priority = None}

\* The query parameters of GET /todos.
ListQuery ==
    [skip : 0..MaxSkip, limit : 0..MaxLimit,
     completed : {None, Some(TRUE), Some(FALSE)},
     priority : {None, Some(""), Some("high"), Some("medium")}]

Ids == 1..MaxId

NoBody == [none |-> TRUE]

Request(op, todo_id, body, fail, out) ==
    [op |-> op, todo_id |-> todo_id, body |-> body, fail |-> fail, status |-> out.status,
     result |-> out.result, failed |-> out.failed, committed |-> out.committed]

----------------------------------------------------------------------------
(* Spec: atomic requests *)

NoRequest ==
    [op |-> "none", todo_id |-> 0, body |-> NoBody, fail |-> "none", status |-> 0,
     result |-> None, failed |-> FALSE, committed |-> FALSE]

Init ==
    /\ todos = <<>>
    /\ now = 0
    /\ last = NoRequest
    /\ pc = [r \in 1..NumRequests |-> "idle"]
    /\ req = [r \in 1..NumRequests |-> [op |-> "none", todo_id |-> 0, body |-> NoBody,
                                        fail |-> "none"]]
    /\ db = [r \in 1..NumRequests |-> 0]
    /\ sessions = <<>>
    /\ resp = [r \in 1..NumRequests |-> [status |-> 0, result |-> None, total |-> 0,
                                         completed |-> 0]]

\* The clock is read by the handlers only: it ticks between requests.
Tick ==
    /\ last = NoRequest
    /\ now < MaxTime
    /\ now' = now + 1
    /\ UNCHANGED <<todos, last, concVars>>

\* The storage calls of each handler that may raise.
CreateFails == {"none", "commit", "refresh"}
UpdateFails == {"none", "query", "commit", "refresh"}
DeleteFails == {"none", "query", "commit"}
ReadFails == {"none", "query"}

\* A request arrives when the previous response has gone out; the handler runs
\* to its response in one step.
Answer(op, todo_id, body, fail, out) ==
    /\ todos' = out.todos
    /\ last' = Request(op, todo_id, body, fail, out)
    /\ UNCHANGED <<now, concVars>>

\* The response goes out to the client.
Deliver ==
    /\ last # NoRequest
    /\ last' = NoRequest
    /\ UNCHANGED <<todos, now, concVars>>

create_todo ==
    /\ last = NoRequest
    /\ NextId(todos) <= MaxId
    /\ \E todo \in TodoCreate, fail \in CreateFails :
            Answer("create", 0, todo, fail, CreateTodo(todos, now, todo, fail))

update_todo ==
    /\ last = NoRequest
    /\ \E todo_id \in Ids, todo_update \in TodoUpdate, fail \in UpdateFails :
            Answer("update", todo_id, todo_update, fail,
                   UpdateTodo(todos, now, todo_id, todo_update, fail))

delete_todo ==
    /\ last = NoRequest
    /\ \E todo_id \in Ids, fail \in DeleteFails :
            Answer("delete", todo_id, NoBody, fail, DeleteTodo(todos, todo_id, fail))

get_todo ==
    /\ last = NoRequest
    /\ \E todo_id \in Ids, fail \in ReadFails :
            Answer("get", todo_id, NoBody, fail, GetTodo(todos, todo_id, fail))

get_todos ==
    /\ last = NoRequest
    /\ \E q \in ListQuery, fail \in ReadFails :
            \E order \in Orderings(todos, Filtered(todos, q)) :
                Answer("list", 0, q, fail, GetTodos(todos, q, order, fail))

get_todo_stats ==
    /\ last = NoRequest
    /\ \E fail \in ReadFails :
            Answer("stats", 0, NoBody, fail, GetTodoStats(todos, fail))

Next ==
    \/ Tick
    \/ Deliver
    \/ create_todo
    \/ update_todo
    \/ delete_todo
    \/ get_todo
    \/ get_todos
    \/ get_todo_stats

Spec == Init /\ [][Next]_vars

----------------------------------------------------------------------------
(* ConcSpec: requests as processes, each with the session get_db yields *)

Procs == 1..NumRequests

ConcCreates ==
    [title : {<<"a">>, <<" ">>}, description : {None}, priority : {Some("high")}]

ConcUpdates ==
    {[set |-> {"completed"}, title |-> None, description |-> None,
      completed |-> Some(TRUE), priority |-> None],
     [set |-> {"priority"}, title |-> None, description |-> None,
      completed |-> None, priority |-> Some("urgent")]}

ConcLists ==
    {[skip |-> 0, limit |-> MaxLimit, completed |-> Some(TRUE), priority |-> None]}

NoResponse == [status |-> 0, result |-> None, total |-> 0, completed |-> 0]

\* db = SessionLocal(): a session of its own for every call.
SessionLocal(ss, r) == Append(ss, [state |-> "open", owner |-> r, closes |-> 0])

\* db.close()
\* Variant: the session is left as it is.
CloseLeftOpen(sess) == sess

Close(sess) == [sess EXCEPT !.state = "closed", !.closes = @ + 1]

\* The creates whose handler has not run yet: each will take an id.
CreatesInFlight == {p \in Procs : pc[p] = "handler" /\ req[p].op = "create"}

\* get_db up to its yield: the request gets a fresh session and its handler starts.
get_db(r, op, todo_id, body, fail) ==
    /\ pc[r] = "idle"
    /\ Len(sessions) < MaxSessions
    /\ op = "create" => NextId(todos) + Cardinality(CreatesInFlight) <= MaxId
    /\ sessions' = SessionLocal(sessions, r)
    /\ db' = [db EXCEPT ![r] = Len(sessions')]
    /\ req' = [req EXCEPT ![r] = [op |-> op, todo_id |-> todo_id, body |-> body,
                                  fail |-> fail]]
    /\ resp' = [resp EXCEPT ![r] = NoResponse]
    /\ pc' = [pc EXCEPT ![r] = "handler"]
    /\ UNCHANGED <<todos, now, last>>

\* GET /: no Depends(get_db), no session.
root(r) ==
    /\ pc[r] = "idle"
    /\ req' = [req EXCEPT ![r] = [op |-> "root", todo_id |-> 0, body |-> NoBody,
                                  fail |-> "none"]]
    /\ resp' = [resp EXCEPT ![r] = [NoResponse EXCEPT !.status = 200]]
    /\ UNCHANGED <<todos, now, last, pc, db, sessions>>

\* get_db after its yield: the finally clause, on every way out of the handler.
get_db_finally(r) ==
    /\ pc[r] = "answered"
    /\ sessions' = [sessions EXCEPT ![db[r]] = Close(@)]
    /\ db' = [db EXCEPT ![r] = 0]
    /\ pc' = [pc EXCEPT ![r] = "idle"]
    /\ UNCHANGED <<todos, now, last, req, resp>>

Respond(r, out) ==
    /\ todos' = out.todos
    /\ resp' = [resp EXCEPT ![r] = [NoResponse EXCEPT !.status = out.status,
                                                     !.result = out.result]]
    /\ pc' = [pc EXCEPT ![r] = "answered"]
    /\ UNCHANGED <<now, last, req, db, sessions>>

\* A handler whose reads and single write are one transaction.
handler(r) ==
    /\ pc[r] = "handler"
    /\ req[r].op \in {"create", "update", "delete", "get"}
    /\ Respond(r, CASE req[r].op = "create" ->
                        CreateTodo(todos, now, req[r].body, req[r].fail)
                     [] req[r].op = "update" ->
                        UpdateTodo(todos, now, req[r].todo_id, req[r].body, req[r].fail)
                     [] req[r].op = "delete" ->
                        DeleteTodo(todos, req[r].todo_id, req[r].fail)
                     [] req[r].op = "get" ->
                        GetTodo(todos, req[r].todo_id, req[r].fail))

\* get_todos: one SELECT.
handler_list(r) ==
    /\ pc[r] = "handler"
    /\ req[r].op = "list"
    /\ \E order \in Orderings(todos, Filtered(todos, req[r].body)) :
            Respond(r, GetTodos(todos, req[r].body, order, req[r].fail))

\* get_todo_stats, query by query: total = db.query(TodoDB).count()
stats_total(r) ==
    /\ pc[r] = "handler"
    /\ req[r].op = "stats"
    /\ IF req[r].fail = "query"
       THEN Respond(r, GetTodoStats(todos, "query"))
       ELSE /\ resp' = [resp EXCEPT ![r].total = CountAll(todos)]
            /\ pc' = [pc EXCEPT ![r] = "stats_completed"]
            /\ UNCHANGED <<todos, now, last, req, db, sessions>>

\* completed = db.query(TodoDB).filter(TodoDB.completed == True).count()
stats_completed(r) ==
    /\ pc[r] = "stats_completed"
    /\ resp' = [resp EXCEPT ![r].completed = CountCompleted(todos)]
    /\ pc' = [pc EXCEPT ![r] = "stats_high"]
    /\ UNCHANGED <<todos, now, last, req, db, sessions>>

\* high_priority = ...count(), and the summary
stats_high(r) ==
    /\ pc[r] = "stats_high"
    /\ Respond(r, Outcome(todos, 200,
                          Summary(resp[r].total, resp[r].completed, CountHighPending(todos)),
                          FALSE, FALSE))

Step(r) ==
    \/ handler(r)
    \/ handler_list(r)
    \/ stats_total(r)
    \/ stats_completed(r)
    \/ stats_high(r)
    \/ get_db_finally(r)

ConcInit == Init

ConcNext ==
    \/ \E r \in Procs, todo \in ConcCreates, fail \in CreateFails :
            get_db(r, "create", 0, todo, fail)
    \/ \E r \in Procs, todo_id \in Ids, u \in ConcUpdates, fail \in {"none", "commit"} :
            get_db(r, "update", todo_id, u, fail)
    \/ \E r \in Procs, todo_id \in Ids : get_db(r, "delete", todo_id, NoBody, "none")
    \/ \E r \in Procs, todo_id \in Ids : get_db(r, "get", todo_id, NoBody, "none")
    \/ \E r \in Procs, q \in ConcLists : get_db(r, "list", 0, q, "none")
    \/ \E r \in Procs, fail \in ReadFails : get_db(r, "stats", 0, NoBody, fail)
    \/ \E r \in Procs : root(r)
    \/ \E r \in Procs : Step(r)

\* Once a handler has started it runs to its response, and the dependency's exit
\* code runs after it: the framework drives both.
ConcSpec == ConcInit /\ [][ConcNext]_vars /\ \A r \in Procs : WF_vars(Step(r))

----------------------------------------------------------------------------
(* The claims.  Their vocabulary is defined here, apart from the model's. *)

AllowedPriorities == {"low", "medium", "high"}

IsBlank(s) == \A k \in 1..Len(s) : s[k] = " "

\* t is s without its leading and trailing blanks.
IsTrimOf(t, s) ==
    /\ t = <<>> \/ (t[1] # " " /\ t[Len(t)] # " ")
    /\ \E i \in 1..(Len(s) + 1), j \in 0..Len(s) :
            /\ t = SubSeq(s, i, j)
            /\ \A k \in 1..Len(s) : (k < i \/ k > j) => s[k] = " "

BadPriority(o) == o = None \/ o[1] \notin AllowedPriorities

\* The step from `last = NoRequest` is the handling of the request last' names.
Handled(ops) == last = NoRequest /\ last'.op \in ops

\* C1: every stored todo has a title that is non-empty after trimming and a
\* priority among low, medium, high, whatever requests came before.
C1_TitleAndPriority ==
    \A i \in DOMAIN todos :
        ~IsBlank(todos[i].title) /\ todos[i].priority \in AllowedPriorities

C1_Witness ==
    /\ last.op = "update" /\ last.status = 400
    /\ Cardinality(DOMAIN todos) = 2
    /\ \E i \in DOMAIN todos : todos[i].priority = "low" /\ todos[i].updated_at > todos[i].created_at

\* C2: a successful update changes exactly the supplied fields (title and
\* description trimmed), keeps the unsupplied ones, the id and created_at,
\* leaves every other row alone and sets updated_at to the time of the update.
C2_UpdateFrame ==
    [][(Handled({"update"}) /\ last'.status = 200) =>
        LET id == last'.todo_id
            u == last'.body
            old == todos[id]
            new == todos'[id]
        IN  /\ DOMAIN todos' = DOMAIN todos
            /\ \A i \in DOMAIN todos \ {id} : todos'[i] = todos[i]
            /\ new.id = old.id
            /\ new.created_at = old.created_at
            /\ new.updated_at = now
            /\ IF "title" \in u.set THEN IsTrimOf(new.title, u.title[1])
                                     ELSE new.title = old.title
            /\ IF "description" \in u.set
               THEN IF u.description = None THEN new.description = <<>>
                    ELSE IsTrimOf(new.description, u.description[1])
               ELSE new.description = old.description
            /\ IF "completed" \in u.set THEN new.completed = u.completed
                                         ELSE new.completed = old.completed
            /\ IF "priority" \in u.set THEN new.priority = u.priority[1]
                                        ELSE new.priority = old.priority]_vars

C2_Witness ==
    /\ last.op = "update" /\ last.status = 200
    /\ last.body.set = {"completed"} /\ last.body.completed = Some(TRUE)
    /\ Cardinality(DOMAIN todos) = 2
    /\ LET row == todos[last.todo_id]
       IN  /\ row.updated_at > row.created_at
           /\ row.description = <<"a">>
           /\ row.priority = "high"

InvalidCreate(r) ==
    r.op = "create" /\ (BadPriority(r.body.priority) \/ IsBlank(r.body.title))

InvalidUpdate(r, T) ==
    /\ r.op = "update"
    /\ r.todo_id \in DOMAIN T
    /\ \/ "priority" \in r.body.set /\ BadPriority(r.body.priority)
       \/ "title" \in r.body.set /\ r.body.title # None /\ IsBlank(r.body.title[1])

\* C3: a create with a priority outside the three values or a blank title, and
\* an update of an existing id that supplies such a priority or title, gets 400
\* and leaves the table as it was, also when other valid fields came with it.
C3_ValidationRejects ==
    [][(/\ Handled({"create", "update"})
        /\ last'.fail = "none"
        /\ InvalidCreate(last') \/ InvalidUpdate(last', todos))
       => (last'.status = 400 /\ todos' = todos)]_vars

C3_Witness ==
    /\ last.op = "update" /\ last.status = 400
    /\ last.todo_id \in DOMAIN todos
    /\ last.body.set = {"title", "completed"}
    /\ last.body.title = Some(<<" ">>) /\ last.body.completed = Some(TRUE)
    /\ todos[last.todo_id].completed = Some(FALSE)

\* C4: get, update and delete of an id that is not in the table get 404 and
\* leave the table as it was, whatever body the update carries.
C4_NotFound ==
    [][(/\ Handled({"get", "update", "delete"})
        /\ last'.fail = "none"
        /\ last'.todo_id \notin DOMAIN todos)
       => (last'.status = 404 /\ todos' = todos)]_vars

\* Id 1 was deleted while id 2 lives on, and an update of id 1 with a body came.
C4_Witness ==
    /\ last.op = "update" /\ last.status = 404
    /\ last.todo_id = 1 /\ DOMAIN todos = {2}
    /\ last.body.set = {"title", "priority"}

\* C5: stats returns total = rows, completed = rows that are completed, pending
\* = total - completed, high_priority_pending = rows with priority high that
\* are not completed.
C5_StatsCounts ==
    (last.op = "stats" /\ last.status = 200) =>
        LET done == {i \in DOMAIN todos : todos[i].completed = Some(TRUE)}
        IN  /\ last.result.total = Cardinality(DOMAIN todos)
            /\ last.result.completed = Cardinality(done)
            /\ last.result.pending = Cardinality(DOMAIN todos \ done)
            /\ last.result.high_priority_pending =
                    Cardinality({i \in DOMAIN todos \ done : todos[i].priority = "high"})

\* The orders of the rows S that are descending in created_at.
DescendingOrders(S) ==
    {o \in [1..Cardinality(S) -> S] :
        /\ \A i \in S : \E k \in 1..Cardinality(S) : o[k] = i
        /\ \A k \in 1..(Cardinality(S) - 1) :
                todos[o[k]].created_at >= todos[o[k + 1]].created_at}

\* C6: the list request returns exactly the rows equal to every supplied filter
\* value, by created_at descending, the first skip dropped and at most limit
\* kept; a supplied filter is never ignored.
C6_ListFilters ==
    (last.op = "list" /\ last.status = 200) =>
        LET q == last.body
            S == {i \in DOMAIN todos :
                    /\ (q.completed # None => todos[i].completed = q.completed)
                    /\ (q.priority # None => todos[i].priority = q.priority[1])}
            n == Cardinality(S)
            kept == IF n - q.skip < 0 THEN 0
                    ELSE IF n - q.skip < q.limit THEN n - q.skip ELSE q.limit
        IN  /\ Len(last.result) = kept
            /\ \E o \in DescendingOrders(S) :
                    \A k \in 1..Len(last.result) :
                        q.skip + k <= n /\ last.result[k] = todos[o[q.skip + k]]

\* C7: when a storage call fails during create, update or delete, the answer is
\* 500 and the table is as it was before the request.
C7_FailureRollsBack ==
    [][(Handled({"create", "update", "delete"}) /\ last'.failed)
       => (last'.status = 500 /\ todos' = todos)]_vars

\* C9: every stored todo's completed is true or false, never null.
C9_CompletedNeverNull ==
    \A i \in DOMAIN todos : todos[i].completed \in {Some(TRUE), Some(FALSE)}

C8_SessionSafety ==
    /\ \A s \in DOMAIN sessions :
            /\ sessions[s].closes <= 1
            /\ sessions[s].state = "closed" <=> sessions[s].closes = 1
            /\ sessions[s].state = "open" =>
                    pc[sessions[s].owner] # "idle" /\ db[sessions[s].owner] = s
    /\ \A r \in Procs :
            pc[r] # "idle" =>
                /\ db[r] \in DOMAIN sessions
                /\ sessions[db[r]].state = "open"
                /\ sessions[db[r]].owner = r
                /\ \A r2 \in Procs \ {r} : db[r2] # db[r]

\* C8: every session get_db hands to a request is closed exactly once when the
\* request completes, on every outcome; none stays open after its request and
\* none is shared between two requests.
C8_SessionsReleased ==
    /\ []C8_SessionSafety
    /\ \A s \in 1..MaxSessions :
            (s \in DOMAIN sessions /\ sessions[s].state = "open")
                ~> (/\ s \in DOMAIN sessions
                    /\ sessions[s].state = "closed"
                    /\ sessions[s].closes = 1)

\* Both processes are done, one after a storage failure and one after a
\* validation error, and the sessions of both are closed.
C8_Witness ==
    /\ \A r \in Procs : pc[r] = "idle"
    /\ \E s1, s2 \in DOMAIN sessions :
            /\ sessions[s1].owner # sessions[s2].owner
            /\ sessions[s1].state = "closed" /\ sessions[s2].state = "closed"
            /\ resp[sessions[s1].owner].status = 500
            /\ req[sessions[s1].owner].fail = "commit"
            /\ resp[sessions[s2].owner].status = 400
    /\ \A s \in DOMAIN sessions : sessions[s].state = "closed"

\* C10: every stats summary satisfies 0 <= high_priority_pending <= pending <=
\* total and completed <= total, also when other requests commit between the
\* three count queries.
C10_StatsConsistent ==
    \A r \in Procs :
        (pc[r] = "answered" /\ req[r].op = "stats" /\ resp[r].status = 200) =>
            LET x == resp[r].result
            IN  /\ 0 <= x.high_priority_pending
                /\ x.high_priority_pending <= x.pending
                /\ x.pending <= x.total
                /\ x.completed <= x.total

====
